---- MODULE Spec2Model ----
(***************************************************************************)
(* UBI + Tax Policy Sandbox (src/app.py).                                  *)
(*                                                                         *)
(* The program is one Streamlit script.  Every change of a sidebar widget  *)
(* re-executes the script from its first line in a fresh namespace; one    *)
(* execution ("run") reads the five policy inputs, builds the population   *)
(* table, computes taxes, allocates the UBI, derives disposable income and *)
(* the inequality ratio, and renders the result.  The model has one action *)
(* per numbered section of the script and one for the re-execution.        *)
(*                                                                         *)
(* Number representation.  The script computes in binary floating point.   *)
(* The model computes the same quantities exactly, as scaled integers:     *)
(*   - a tax rate is held as its numerator over RateDen (a slider value of *)
(*     p percent in steps of 0.5 is the rate 2p/200);                      *)
(*   - pop_share, mpc and the consumption shares are held in hundredths;   *)
(*   - a per-person amount of money is held in tenths of a currency unit   *)
(*     (see Dollars); with the reference brackets and rates that are whole *)
(*     multiples of 0.5% every per-person amount is a whole number of      *)
(*     tenths, so no quotient below loses a remainder;                     *)
(*   - a population-wide amount (revenue, UBI cost, surplus) is held in    *)
(*     thousands of currency units (see Thousands);                        *)
(*   - a quotient of two floats is held as the pair num/den.               *)
(* Lines 1-2 of src/app.py are shell commands pasted above the script;     *)
(* the model is of the Python script that starts at line 3.                *)
(***************************************************************************)
EXTENDS Integers, Sequences, FiniteSets, TLC

VARIABLES
    INCOME_GROUPS,          \* app.py:16   the four income groups
    TOTAL_POP,              \* app.py:23
    vat_rate,               \* app.py:30   numerator over RateDen
    luxury_tax_rate,        \* app.py:31   numerator over RateDen
    income_tax_rate,        \* app.py:32   numerator over RateDen
    ubi_monthly,            \* app.py:34   whole currency units per month
    ubi_target,             \* app.py:36
    pc,                     \* section of the script the run is about to execute
    cumulative_pop,         \* app.py:49
    df,                     \* app.py:84   sequence of rows (records)
    total_tax_revenue,      \* app.py:102  thousands
    ubi_recipients,         \* app.py:119
    ubi_annual_per_person,  \* app.py:120  whole currency units
    total_ubi_cost,         \* app.py:122  thousands
    budget_surplus,         \* app.py:124  thousands
    inequality_ratio,       \* app.py:142
    metrics,                \* app.py:148-153  the four rendered metrics
    display_df,             \* app.py:157-170
    exception,              \* the exception that ended the run, or NoException
    memo                    \* history: inputs and results of one earlier completed run

vars == <<INCOME_GROUPS, TOTAL_POP, vat_rate, luxury_tax_rate, income_tax_rate,
          ubi_monthly, ubi_target, pc, cumulative_pop, df, total_tax_revenue,
          ubi_recipients, ubi_annual_per_person, total_ubi_cost, budget_surplus,
          inequality_ratio, metrics, display_df, exception, memo>>

-----------------------------------------------------------------------------
(* Values of names the run has not assigned yet, and markers. *)

Unset == "unset"
NoException == "none"
NoMemo == [taken |-> FALSE]

-----------------------------------------------------------------------------
(* Arithmetic helpers. *)

\* Denominator of a tax rate: slider percent / 100, slider step 0.5.
RateDen == 200

\* A whole number of currency units as a per-person amount (tenths).
Dollars(n) == 10 * n

\* x * (p / 100), p in hundredths.
Pct(x, p) == (x * p) \div 100

\* x * (h / RateDen), h a rate numerator.
Rate(h, x) == (h * x) \div RateDen

\* floor(a * b / d) for d > 0, without forming the product a * b.
MulDiv(a, b, d) == a * (b \div d) + (a * (b % d)) \div d

\* per-person tenths times a head count, in thousands of currency units.
Thousands(perPerson, count) == MulDiv(perPerson, count, 10000)

\* a / b rounded to the nearest integer (ties upward), b > 0.
RoundDiv(a, b) == (2 * a + b) \div (2 * b)

RECURSIVE SumSeq(_)
SumSeq(s) == IF s = <<>> THEN 0 ELSE Head(s) + SumSeq(Tail(s))

RECURSIVE ScaledQuot(_, _, _)
\* [q, r]: q = floor(a * 10^digits / d), r = the remainder, for d > 0.
ScaledQuot(a, d, digits) ==
    IF digits = 0
    THEN [q |-> a \div d, r |-> a % d]
    ELSE LET p == ScaledQuot(a, d, digits - 1)
         IN  [q |-> 10 * p.q + (10 * p.r) \div d, r |-> (10 * p.r) % d]

\* a / d * 10^digits rounded to the nearest integer (ties upward), d > 0.
ScaledRound(a, d, digits) ==
    LET p == ScaledQuot(a, d, digits)
    IN  p.q + (IF 2 * p.r >= d THEN 1 ELSE 0)

-----------------------------------------------------------------------------
(* 1. The toy economy, app.py:16-23. *)

IncomeGroupsLiteral ==
    << [name |-> "Low",          pop_share |-> 30, avg_income |-> 20000,  mpc |-> 95],
       [name |-> "Lower-Middle", pop_share |-> 40, avg_income |-> 40000,  mpc |-> 85],
       [name |-> "Upper-Middle", pop_share |-> 20, avg_income |-> 80000,  mpc |-> 75],
       [name |-> "High",         pop_share |-> 10, avg_income |-> 200000, mpc |-> 60] >>

TotalPopLiteral == 100000

-----------------------------------------------------------------------------
(* 2. Sidebar controls, app.py:30-39.  A slider is (min, max, default,     *)
(* step); rate sliders are in units of 0.5 percent, i.e. rate numerators.  *)

VatSlider == [min |-> 0, max |-> 60, default |-> 20, step |-> 1]
LuxurySlider == [min |-> 0, max |-> 80, default |-> 20, step |-> 1]
IncomeSlider == [min |-> 0, max |-> 80, default |-> 30, step |-> 1]
UbiSlider == [min |-> 0, max |-> 2000, default |-> 800, step |-> 50]

UbiTargets == <<"Everyone", "Bottom 50% income", "Bottom 20% income">>
TargetOptions == {UbiTargets[i] : i \in DOMAIN UbiTargets}

\* Every position a slider can take.
SliderValues(s) == {v \in s.min .. s.max : (v - s.min) % s.step = 0}

\* The positions explored: every stride-th one, the two ends and the default.
RateStride == 20
UbiStride == 10

Sample(s, stride) ==
    {v \in SliderValues(s) :
        \/ ((v - s.min) \div s.step) % stride = 0
        \/ v \in {s.max, s.default}}

\* The coarse grid used when two runs are compared: both ends and the default.
Ends(s) == {s.min, s.default, s.max}

-----------------------------------------------------------------------------
(* 3. Population table, app.py:48-84. *)

\* Mutant of ConsumptionShares: the Low bracket given the Lower-Middle split.
ConsumptionSharesShifted(name) ==
    CASE name = "Low"          -> [basic |-> 95, luxury |-> 5]
      [] name = "Lower-Middle" -> [basic |-> 95, luxury |-> 5]
      [] name = "Upper-Middle" -> [basic |-> 90, luxury |-> 10]
      [] OTHER                 -> [basic |-> 80, luxury |-> 20]

\* app.py:63-70
ConsumptionShares(name) ==
    CASE name = "Low"          -> [basic |-> 98, luxury |-> 2]
      [] name = "Lower-Middle" -> [basic |-> 95, luxury |-> 5]
      [] name = "Upper-Middle" -> [basic |-> 90, luxury |-> 10]
      [] OTHER                 -> [basic |-> 80, luxury |-> 20]

\* One iteration of the loop, app.py:52-82.
GroupRow(g, total_pop) ==
    LET income      == Dollars(g.avg_income)
        consumption == Pct(income, g.mpc)
        shares      == ConsumptionShares(g.name)
    IN  [group       |-> g.name,
         group_pop   |-> (total_pop * g.pop_share) \div 100,
         avg_income  |-> income,
         mpc         |-> g.mpc,
         basic_cons  |-> Pct(consumption, shares.basic),
         luxury_cons |-> Pct(consumption, shares.luxury)]

Column(frame, col) == [i \in DOMAIN frame |-> frame[i][col]]

\* Mutant of BuildTable: the loop writes each group's head count back into the
\* group's record of INCOME_GROUPS.
BuildTableInPlace ==
    /\ pc = "build"
    /\ LET rows == [i \in DOMAIN INCOME_GROUPS |-> GroupRow(INCOME_GROUPS[i], TOTAL_POP)]
       IN  /\ df' = rows
           /\ cumulative_pop' = SumSeq(Column(rows, "group_pop"))
           /\ INCOME_GROUPS' = [i \in DOMAIN INCOME_GROUPS |->
                                   [INCOME_GROUPS[i] EXCEPT !.pop_share = rows[i].group_pop]]
    /\ pc' = "tax"
    /\ UNCHANGED <<TOTAL_POP, vat_rate, luxury_tax_rate, income_tax_rate,
                   ubi_monthly, ubi_target, total_tax_revenue, ubi_recipients,
                   ubi_annual_per_person, total_ubi_cost, budget_surplus,
                   inequality_ratio, metrics, display_df, exception, memo>>

BuildTable ==
    /\ pc = "build"
    /\ LET rows == [i \in DOMAIN INCOME_GROUPS |-> GroupRow(INCOME_GROUPS[i], TOTAL_POP)]
       IN  /\ df' = rows
           /\ cumulative_pop' = SumSeq(Column(rows, "group_pop"))
    /\ pc' = "tax"
    /\ UNCHANGED <<INCOME_GROUPS, TOTAL_POP, vat_rate, luxury_tax_rate, income_tax_rate,
                   ubi_monthly, ubi_target, total_tax_revenue, ubi_recipients,
                   ubi_annual_per_person, total_ubi_cost, budget_surplus,
                   inequality_ratio, metrics, display_df, exception, memo>>

-----------------------------------------------------------------------------
(* 4. Tax calculations, app.py:90-102. *)

\* Mutant of TaxColumns: the luxury tax subtracted from the total instead of added.
TaxColumnsLuxuryRebate(row, vat, lux, inc) ==
    LET vat_tax    == Rate(vat, row.basic_cons + row.luxury_cons)
        lux_tax    == Rate(lux, row.luxury_cons)
        income_tax == Rate(inc, row.avg_income)
        total      == vat_tax - lux_tax + income_tax
    IN  [vat_tax_per_person    |-> vat_tax,
         lux_tax_per_person    |-> lux_tax,
         income_tax_per_person |-> income_tax,
         total_tax_per_person  |-> total,
         total_tax_group       |-> Thousands(total, row.group_pop)]

TaxColumns(row, vat, lux, inc) ==
    LET vat_tax    == Rate(vat, row.basic_cons + row.luxury_cons)
        lux_tax    == Rate(lux, row.luxury_cons)
        income_tax == Rate(inc, row.avg_income)
        total      == vat_tax + lux_tax + income_tax
    IN  [vat_tax_per_person    |-> vat_tax,
         lux_tax_per_person    |-> lux_tax,
         income_tax_per_person |-> income_tax,
         total_tax_per_person  |-> total,
         total_tax_group       |-> Thousands(total, row.group_pop)]

TaxCalc ==
    /\ pc = "tax"
    /\ LET taxed == [i \in DOMAIN df |->
                        df[i] @@ TaxColumns(df[i], vat_rate, luxury_tax_rate, income_tax_rate)]
       IN  /\ df' = taxed
           /\ total_tax_revenue' = SumSeq(Column(taxed, "total_tax_group"))
    /\ pc' = "ubi"
    /\ UNCHANGED <<INCOME_GROUPS, TOTAL_POP, vat_rate, luxury_tax_rate, income_tax_rate,
                   ubi_monthly, ubi_target, cumulative_pop, ubi_recipients,
                   ubi_annual_per_person, total_ubi_cost, budget_surplus,
                   inequality_ratio, metrics, display_df, exception, memo>>

-----------------------------------------------------------------------------
(* 5. UBI allocation, app.py:108-124. *)

RECURSIVE InsertByIncome(_, _)
\* row placed after every row of the sorted frame whose avg_income is not larger.
InsertByIncome(row, sorted) ==
    IF sorted = <<>> THEN <<row>>
    ELSE IF Head(sorted).avg_income <= row.avg_income
         THEN <<Head(sorted)>> \o InsertByIncome(row, Tail(sorted))
         ELSE <<row>> \o sorted

RECURSIVE InsertDescending(_, _)
InsertDescending(row, sorted) ==
    IF sorted = <<>> THEN <<row>>
    ELSE IF Head(sorted).avg_income >= row.avg_income
         THEN <<Head(sorted)>> \o InsertDescending(row, Tail(sorted))
         ELSE <<row>> \o sorted

RECURSIVE SortValuesDescending(_)
\* Mutant of SortValues: the frame sorted by avg_income in descending order.
SortValuesDescending(frame) ==
    IF frame = <<>> THEN <<>>
    ELSE InsertDescending(frame[Len(frame)],
                          SortValuesDescending(SubSeq(frame, 1, Len(frame) - 1)))

RECURSIVE SortValues(_)
\* df.sort_values("avg_income").reset_index(drop=True): ascending, stable.
SortValues(frame) ==
    IF frame = <<>> THEN <<>>
    ELSE InsertByIncome(frame[Len(frame)], SortValues(SubSeq(frame, 1, Len(frame) - 1)))

\* Mutant of CumSum: the running sum taken before the bracket itself is added.
CumSumExclusive(frame, i) == SumSeq(Column(SubSeq(frame, 1, i - 1), "group_pop"))

\* df["group_pop"].cumsum() at position i.
CumSum(frame, i) == SumSeq(Column(SubSeq(frame, 1, i), "group_pop"))

\* share <= num/100, share a quotient held as num/den.
ShareAtMost(share, hundredths) == share.num * 100 <= hundredths * share.den

\* app.py:112-117; no branch assigns the column for any other target.
TargetKnown(target) == target \in {"Everyone", "Bottom 50% income", "Bottom 20% income"}

\* Mutant of UbiEligible: strict comparisons, "Everyone" as a share below 100%.
UbiEligibleStrict(target, share) ==
    CASE target = "Everyone"          -> share.num < share.den
      [] target = "Bottom 50% income" -> share.num * 100 < 50 * share.den
      [] target = "Bottom 20% income" -> share.num * 100 < 20 * share.den

\* Mutant of UbiEligible: the two thresholds exchanged.
UbiEligibleSwapped(target, share) ==
    CASE target = "Everyone"          -> TRUE
      [] target = "Bottom 50% income" -> share.num * 100 <= 20 * share.den
      [] target = "Bottom 20% income" -> share.num * 100 <= 50 * share.den

UbiEligible(target, share) ==
    CASE target = "Everyone"          -> TRUE
      [] target = "Bottom 50% income" -> ShareAtMost(share, 50)
      [] target = "Bottom 20% income" -> ShareAtMost(share, 20)

\* app.py:108-110
RankByIncome(frame, total_pop) ==
    LET sorted == SortValues(frame)
    IN  [i \in DOMAIN sorted |->
            sorted[i] @@ [cum_pop       |-> CumSum(sorted, i),
                          cum_pop_share |-> [num |-> CumSum(sorted, i), den |-> total_pop]]]

\* df.loc[df["ubi_eligible"], "group_pop"].sum()
Recipients(frame) ==
    SumSeq([i \in DOMAIN frame |-> IF frame[i].ubi_eligible THEN frame[i].group_pop ELSE 0])

UbiAlloc ==
    /\ pc = "ubi"
    /\ LET ranked == RankByIncome(df, TOTAL_POP)
       IN  IF TargetKnown(ubi_target)
           THEN LET marked == [i \in DOMAIN ranked |->
                                  ranked[i] @@ [ubi_eligible |->
                                      UbiEligible(ubi_target, ranked[i].cum_pop_share)]]
                    recipients == Recipients(marked)
                    annual     == ubi_monthly * 12
                    cost       == MulDiv(annual, recipients, 1000)
                IN  /\ df' = marked
                    /\ ubi_recipients' = recipients
                    /\ ubi_annual_per_person' = annual
                    /\ total_ubi_cost' = cost
                    /\ budget_surplus' = total_tax_revenue - cost
                    /\ pc' = "disp"
                    /\ UNCHANGED exception
           ELSE \* app.py:119 reads a column no branch created
                /\ df' = ranked
                /\ exception' = "KeyError"
                /\ pc' = "error"
                /\ UNCHANGED <<ubi_recipients, ubi_annual_per_person, total_ubi_cost,
                               budget_surplus>>
    /\ UNCHANGED <<INCOME_GROUPS, TOTAL_POP, vat_rate, luxury_tax_rate, income_tax_rate,
                   ubi_monthly, ubi_target, cumulative_pop, total_tax_revenue,
                   inequality_ratio, metrics, display_df, memo>>

-----------------------------------------------------------------------------
(* 6. Disposable income and inequality, app.py:129-142. *)

NaN == [nan |-> TRUE, num |-> 0, den |-> 0]

\* Mutant of InequalityRatio: the quotient taken without the guard.
InequalityRatioUnguarded(high_disp, low_disp) ==
    [nan |-> FALSE, num |-> high_disp, den |-> low_disp]

\* high_disp / low_disp if low_disp > 0 else np.nan
InequalityRatio(high_disp, low_disp) ==
    IF low_disp > 0 THEN [nan |-> FALSE, num |-> high_disp, den |-> low_disp] ELSE NaN

\* Mutant of DisposableColumns: the income tax taken off twice.
DisposableColumnsTaxedTwice(row, annual) ==
    LET ubi == IF row.ubi_eligible THEN Dollars(annual) ELSE 0
    IN  [ubi_per_person |-> ubi,
         disposable_income_per_person |->
             row.avg_income - row.income_tax_per_person - row.total_tax_per_person + ubi]

DisposableColumns(row, annual) ==
    LET ubi == IF row.ubi_eligible THEN Dollars(annual) ELSE 0
    IN  [ubi_per_person |-> ubi,
         disposable_income_per_person |->
             row.avg_income - row.income_tax_per_person - row.vat_tax_per_person
                 - row.lux_tax_per_person + ubi]

Disposable ==
    /\ pc = "disp"
    /\ LET full == [i \in DOMAIN df |->
                       df[i] @@ DisposableColumns(df[i], ubi_annual_per_person)]
           low_disp  == full[1].disposable_income_per_person
           high_disp == full[Len(full)].disposable_income_per_person
       IN  /\ df' = full
           /\ inequality_ratio' = InequalityRatio(high_disp, low_disp)
    /\ pc' = "display"
    /\ UNCHANGED <<INCOME_GROUPS, TOTAL_POP, vat_rate, luxury_tax_rate, income_tax_rate,
                   ubi_monthly, ubi_target, cumulative_pop, total_tax_revenue,
                   ubi_recipients, ubi_annual_per_person, total_ubi_cost, budget_surplus,
                   metrics, display_df, exception, memo>>

-----------------------------------------------------------------------------
(* 7. Display, app.py:148-181. *)

\* f"{inequality_ratio:.2f}": "nan" for the not-a-number value, else hundredths.
FormatRatio(r) ==
    IF r.nan THEN [nan |-> TRUE, hundredths |-> 0]
    ELSE [nan |-> FALSE, hundredths |-> RoundDiv(100 * r.num, r.den)]

\* app.py:152: the delta is the surplus in percent of revenue to one decimal,
\* and is left out when revenue is not positive.
FormatDelta(surplus, revenue) ==
    IF revenue > 0 THEN [shown |-> TRUE, tenths |-> ScaledRound(100 * surplus, revenue, 1)]
    ELSE [shown |-> FALSE, tenths |-> 0]

\* app.py:157-170
DisplayRow(row) ==
    [IncomeGroup      |-> row.group,
     Population       |-> row.group_pop,
     AvgIncome        |-> row.avg_income,
     DisposableIncome |-> row.disposable_income_per_person,
     UbiReceived      |-> row.ubi_per_person,
     TaxesPaid        |-> row.total_tax_per_person]

Display ==
    /\ pc = "display"
    /\ metrics' = [revenue    |-> total_tax_revenue,
                   cost       |-> total_ubi_cost,
                   surplus    |-> budget_surplus,
                   delta      |-> FormatDelta(budget_surplus, total_tax_revenue),
                   inequality |-> FormatRatio(inequality_ratio)]
    /\ display_df' = [i \in DOMAIN df |-> DisplayRow(df[i])]
    /\ pc' = "done"
    /\ UNCHANGED <<INCOME_GROUPS, TOTAL_POP, vat_rate, luxury_tax_rate, income_tax_rate,
                   ubi_monthly, ubi_target, cumulative_pop, df, total_tax_revenue,
                   ubi_recipients, ubi_annual_per_person, total_ubi_cost, budget_surplus,
                   inequality_ratio, exception, memo>>

-----------------------------------------------------------------------------
(* The start of a run: app.py:16-39 executed in a fresh namespace. *)

Start(vat, lux, inc, ubi, target) ==
    /\ INCOME_GROUPS = IncomeGroupsLiteral
    /\ TOTAL_POP = TotalPopLiteral
    /\ vat_rate = vat
    /\ luxury_tax_rate = lux
    /\ income_tax_rate = inc
    /\ ubi_monthly = ubi
    /\ ubi_target = target
    /\ pc = "build"
    /\ cumulative_pop = Unset
    /\ df = <<>>
    /\ total_tax_revenue = Unset
    /\ ubi_recipients = Unset
    /\ ubi_annual_per_person = Unset
    /\ total_ubi_cost = Unset
    /\ budget_surplus = Unset
    /\ inequality_ratio = Unset
    /\ metrics = Unset
    /\ display_df = <<>>
    /\ exception = NoException

\* The same for a later run: the next state is the start of the new run.
StartAgain(vat, lux, inc, ubi, target) ==
    /\ INCOME_GROUPS' = IncomeGroupsLiteral
    /\ TOTAL_POP' = TotalPopLiteral
    /\ vat_rate' = vat
    /\ luxury_tax_rate' = lux
    /\ income_tax_rate' = inc
    /\ ubi_monthly' = ubi
    /\ ubi_target' = target
    /\ pc' = "build"
    /\ cumulative_pop' = Unset
    /\ df' = <<>>
    /\ total_tax_revenue' = Unset
    /\ ubi_recipients' = Unset
    /\ ubi_annual_per_person' = Unset
    /\ total_ubi_cost' = Unset
    /\ budget_surplus' = Unset
    /\ inequality_ratio' = Unset
    /\ metrics' = Unset
    /\ display_df' = <<>>
    /\ exception' = NoException

\* The first run: every widget at its default.
Init ==
    /\ Start(VatSlider.default, LuxurySlider.default, IncomeSlider.default,
             UbiSlider.default, UbiTargets[1])
    /\ memo = NoMemo

Finished == pc \in {"done", "error"}

\* The inputs and the complete result of the run that has just finished.
Outcome ==
    [taken   |-> TRUE,
     inputs  |-> <<vat_rate, luxury_tax_rate, income_tax_rate, ubi_monthly, ubi_target>>,
     rows    |-> df,
     revenue |-> total_tax_revenue,
     recipients |-> ubi_recipients,
     cost    |-> total_ubi_cost,
     balance |-> budget_surplus,
     ratio   |-> inequality_ratio]

\* One widget is set (to a value of its set, possibly the one it has) and the
\* script runs again from the top with the other four inputs as they were.
Restart(V, L, I, U, T) ==
    /\ Finished
    /\ \/ \E vat \in V : StartAgain(vat, luxury_tax_rate, income_tax_rate, ubi_monthly, ubi_target)
       \/ \E lux \in L : StartAgain(vat_rate, lux, income_tax_rate, ubi_monthly, ubi_target)
       \/ \E inc \in I : StartAgain(vat_rate, luxury_tax_rate, inc, ubi_monthly, ubi_target)
       \/ \E ubi \in U : StartAgain(vat_rate, luxury_tax_rate, income_tax_rate, ubi, ubi_target)
       \/ \E target \in T :
             StartAgain(vat_rate, luxury_tax_rate, income_tax_rate, ubi_monthly, target)

Rerun ==
    /\ Restart(Sample(VatSlider, RateStride), Sample(LuxurySlider, RateStride),
               Sample(IncomeSlider, RateStride), Sample(UbiSlider, UbiStride),
               TargetOptions)
    /\ UNCHANGED memo

Run == BuildTable \/ TaxCalc \/ UbiAlloc \/ Disposable \/ Display

Next == Run \/ Rerun

Spec == Init /\ [][Next]_vars

-----------------------------------------------------------------------------
(* Two runs compared: the history variable memo keeps the inputs and the   *)
(* result of one earlier completed run, any number of runs back.           *)

RerunCoarse ==
    /\ Restart(Ends(VatSlider), Ends(LuxurySlider), Ends(IncomeSlider), Ends(UbiSlider),
               TargetOptions)
    /\ UNCHANGED memo

Remember ==
    /\ pc = "done"
    /\ memo' = Outcome
    /\ Restart(Ends(VatSlider), Ends(LuxurySlider), Ends(IncomeSlider), Ends(UbiSlider),
               TargetOptions)

HistNext == Run \/ RerunCoarse \/ Remember

HistSpec == Init /\ [][HistNext]_vars

-----------------------------------------------------------------------------
(* The calculation applied to arguments the sliders cannot produce: rates  *)
(* below zero and up to 100%, a negative amount, an unlisted target.       *)

EngineRates == {-10, 0, 30, 200}
EngineAmounts == {-50, 0, 800}
EngineTargets == TargetOptions \cup {"Top 10% income"}

EngineInit ==
    /\ \E vat \in EngineRates, lux \in EngineRates, inc \in EngineRates,
          ubi \in EngineAmounts, target \in EngineTargets :
          Start(vat, lux, inc, ubi, target)
    /\ memo = NoMemo

EngineSpec == EngineInit /\ [][Run]_vars

-----------------------------------------------------------------------------
(* Properties. *)

\* The run has allocated the UBI: df carries ubi_eligible.
Allocated == pc \in {"disp", "display", "done"}

\* The run has derived disposable income and the inequality ratio.
Derived == pc \in {"display", "done"}

Inputs == <<vat_rate, luxury_tax_rate, income_tax_rate, ubi_monthly, ubi_target>>

AtDefaults ==
    Inputs = <<VatSlider.default, LuxurySlider.default, IncomeSlider.default,
               UbiSlider.default, "Everyone">>

\* The names of the eligible brackets of a frame.
EligibleGroups(frame) == {frame[i].group : i \in {k \in DOMAIN frame : frame[k].ubi_eligible}}

\* The head count of all brackets of df whose avg_income is at most that of row i.
OwnCumulativeCount(i) ==
    SumSeq([j \in DOMAIN df |->
               IF df[j].avg_income <= df[i].avg_income THEN df[j].group_pop ELSE 0])

\* The positions of the lowest- and the highest-income bracket of df.
Lowest  == CHOOSE i \in DOMAIN df : \A j \in DOMAIN df : df[i].avg_income <= df[j].avg_income
Highest == CHOOSE i \in DOMAIN df : \A j \in DOMAIN df : df[i].avg_income >= df[j].avg_income

InvalidInput ==
    \/ ubi_monthly < 0
    \/ vat_rate < 0
    \/ luxury_tax_rate < 0
    \/ income_tax_rate < 0
    \/ ubi_target \notin {"Everyone", "Bottom 50% income", "Bottom 20% income"}

\* C1: a run on an invalid input (a negative rate or amount, an unlisted target)
\* ends at once with an invalid-input error and computes no row and no total.
C1_InvalidInputRejected ==
    (InvalidInput /\ pc # "build") =>
        /\ pc = "error"
        /\ exception = "InvalidInput"
        /\ df = <<>>
        /\ display_df = <<>>

\* C2: each bracket's eligibility follows from its own cumulative population
\* share (the head count of all brackets with income at most its own, over
\* TOTAL_POP) by the target's rule; the rows are in ascending income order, the
\* eligible ones are a prefix of them, and eligibility is all or nothing.
C2_EligibilityByCumulativeShare ==
    Allocated =>
        \A i \in DOMAIN df :
            /\ df[i].cum_pop_share = [num |-> OwnCumulativeCount(i), den |-> TOTAL_POP]
            /\ df[i].ubi_eligible \in BOOLEAN
            /\ df[i].ubi_eligible =
                  CASE ubi_target = "Everyone" -> TRUE
                    [] ubi_target = "Bottom 50% income" ->
                          100 * OwnCumulativeCount(i) <= 50 * TOTAL_POP
                    [] ubi_target = "Bottom 20% income" ->
                          100 * OwnCumulativeCount(i) <= 20 * TOTAL_POP
            /\ \A j \in DOMAIN df :
                  j < i => /\ df[j].avg_income <= df[i].avg_income
                           /\ df[i].ubi_eligible => df[j].ubi_eligible

C2_Witness ==
    /\ pc = "done"
    /\ ubi_target = "Bottom 50% income"
    /\ \E i, j \in DOMAIN df : df[i].ubi_eligible /\ ~df[j].ubi_eligible

\* C3: the inequality ratio is the highest-income bracket's disposable income
\* over the lowest-income bracket's when the latter is strictly positive, and
\* the not-a-number value otherwise; in that case no exception is raised and
\* the display step runs to its end and shows the ratio as not-a-number.
C3_InequalityRatioGuarded ==
    /\ Derived =>
          LET low  == df[Lowest].disposable_income_per_person
              high == df[Highest].disposable_income_per_person
          IN  /\ low > 0 => inequality_ratio = [nan |-> FALSE, num |-> high, den |-> low]
              /\ low <= 0 => inequality_ratio = NaN
              /\ exception = NoException
    /\ (pc = "display" /\ inequality_ratio.nan) => ENABLED Display
    /\ pc = "done" => /\ metrics.inequality.nan = inequality_ratio.nan
                      /\ display_df # <<>>

C3_Witness ==
    /\ pc = "done"
    /\ df[1].disposable_income_per_person <= 0
    /\ inequality_ratio.nan
    /\ metrics.inequality.nan

\* C4: under "Everyone" the recipients are the whole population: the four head
\* counts add up to TOTAL_POP = 100000 and all four brackets are eligible.
C4_EveryoneCoversPopulation ==
    (Allocated /\ ubi_target = "Everyone") =>
        /\ ubi_recipients = 100000
        /\ SumSeq(Column(df, "group_pop")) = TOTAL_POP
        /\ Len(df) = 4
        /\ \A i \in DOMAIN df : df[i].ubi_eligible

C4_Witness ==
    /\ pc = "done"
    /\ ubi_target = "Everyone"
    /\ ~AtDefaults
    /\ ubi_recipients = 100000

TargetRank(target) ==
    CASE target = "Bottom 20% income" -> 1
      [] target = "Bottom 50% income" -> 2
      [] target = "Everyone"          -> 3

\* C5: of two runs with the same tax rates, the one with the larger or equal
\* UBI amount and the equal or wider target has a superset of the eligible
\* brackets, at least as many recipients and at least as large a UBI cost.
C5_UbiMonotone ==
    (/\ memo.taken
     /\ Allocated
     /\ \A k \in 1..3 : memo.inputs[k] = Inputs[k]
     /\ memo.inputs[4] <= ubi_monthly
     /\ TargetRank(memo.inputs[5]) <= TargetRank(ubi_target)) =>
        /\ EligibleGroups(memo.rows) \subseteq EligibleGroups(df)
        /\ memo.recipients <= ubi_recipients
        /\ memo.cost <= total_ubi_cost

C5_Witness ==
    /\ memo.taken
    /\ pc = "done"
    /\ \A k \in 1..3 : memo.inputs[k] = Inputs[k]
    /\ memo.inputs[4] < ubi_monthly
    /\ TargetRank(memo.inputs[5]) < TargetRank(ubi_target)
    /\ memo.recipients < ubi_recipients
    /\ memo.cost < total_ubi_cost

\* The two runs differ in exactly the k-th input, which is larger in the later run.
OnlyRaised(k) ==
    /\ memo.inputs[k] < Inputs[k]
    /\ \A m \in 1..5 : m # k => memo.inputs[m] = Inputs[m]

\* C6: of two runs that differ in one tax rate only, the one with the larger
\* rate has at least the revenue of the other; and two runs with the same three
\* rates have the same revenue whatever their UBI amount and target.
C6_RevenueMonotone ==
    (memo.taken /\ pc = "done") =>
        /\ (\E k \in 1..3 : OnlyRaised(k)) => memo.revenue <= total_tax_revenue
        /\ (\A k \in 1..3 : memo.inputs[k] = Inputs[k]) => memo.revenue = total_tax_revenue

C6_Witness ==
    /\ memo.taken
    /\ pc = "done"
    /\ OnlyRaised(2)
    /\ memo.revenue < total_tax_revenue

\* C7: the default configuration yields revenue 1,346,940,000, UBI cost
\* 960,000,000, balance 386,940,000 and disposable incomes 24,662 / 40,030 /
\* 71,000 / 165,200 for Low / Lower-Middle / Upper-Middle / High, in that order.
C7_DefaultScenario ==
    (AtDefaults /\ pc = "done") =>
        /\ total_tax_revenue = 1346940
        /\ total_ubi_cost = 960000
        /\ budget_surplus = 386940
        /\ Column(df, "group") = <<"Low", "Lower-Middle", "Upper-Middle", "High">>
        /\ Column(df, "disposable_income_per_person") =
              <<Dollars(24662), Dollars(40030), Dollars(71000), Dollars(165200)>>

C7_Witness == AtDefaults /\ pc = "done" /\ metrics.revenue = 1346940

\* C8: no step of any run changes INCOME_GROUPS or TOTAL_POP, and a completed
\* run has the same complete result as any earlier completed run with the same
\* five inputs.
C8_RunsIndependent ==
    /\ INCOME_GROUPS = IncomeGroupsLiteral
    /\ TOTAL_POP = TotalPopLiteral
    /\ (memo.taken /\ pc = "done" /\ memo.inputs = Inputs) => memo = Outcome

C8_Witness ==
    /\ memo.taken
    /\ pc = "done"
    /\ memo.inputs = Inputs
    /\ ~AtDefaults

\* C9: for every input the sliders allow, the lowest-income bracket's disposable
\* income is at least 6,148, so the inequality ratio is never not-a-number.
C9_LowestDisposablePositive ==
    Derived =>
        /\ df[Lowest].disposable_income_per_person >= Dollars(6148)
        /\ ~inequality_ratio.nan

C9_Witness ==
    /\ pc = "done"
    /\ df[Lowest].disposable_income_per_person = Dollars(6148)

\* C10: with the reference population "Bottom 20% income" makes no bracket
\* eligible (no recipients, no cost), "Bottom 50% income" makes exactly Low
\* eligible (30000 recipients), and a bracket that is not eligible receives 0.
C10_CoarseTargets ==
    /\ (Allocated /\ ubi_target = "Bottom 20% income") =>
          /\ EligibleGroups(df) = {}
          /\ ubi_recipients = 0
          /\ total_ubi_cost = 0
    /\ (Allocated /\ ubi_target = "Bottom 50% income") =>
          /\ EligibleGroups(df) = {"Low"}
          /\ ubi_recipients = 30000
    /\ (Derived /\ ubi_target # "Everyone") =>
          \A i \in DOMAIN df : ~df[i].ubi_eligible => df[i].ubi_per_person = 0

C10_Witness ==
    /\ pc = "done"
    /\ ubi_target = "Bottom 20% income"
    /\ ubi_monthly = UbiSlider.max
    /\ total_ubi_cost = 0

====
